---- MODULE Spec2Model ----
(***************************************************************************)
(* Documentation Browser: the conversation session controller (App.tsx),   *)
(* the knowledge-base URL form (KnowledgeBaseManager) and the generation   *)
(* service (geminiService), as one state machine.                          *)
(*                                                                         *)
(* Strings are sequences of atoms (short strings): a query is a sequence   *)
(* of characters, a URL a sequence of lexical pieces, a suggestion         *)
(* response a sequence of tokens, so that trim(), new URL(), the fence     *)
(* regex and JSON.parse are computed rather than assumed.                  *)
(*                                                                         *)
(* A React state variable is a variable of the module.  An action is one   *)
(* event handler or one promise continuation together with the effects     *)
(* (useEffect) the resulting render runs.  An effect's dependency is       *)
(* compared by reference, so each action states which effects it fires.    *)
(***************************************************************************)
EXTENDS Naturals, Sequences, FiniteSets

VARIABLES
  apiKey,                   \* process.env.API_KEY is set (fixed for a run)
  urlGroups,                \* App: useState<URLGroup[]>
  activeUrlGroupId,         \* App: useState<string>
  chatMessages,             \* App: useState<ChatMessage[]>  (the transcript)
  isLoading,                \* App: a send is in flight (the spec's isSending)
  isFetchingSuggestions,    \* App
  initialQuerySuggestions,  \* App: the suggestions
  generateCalls,            \* generateContentWithUrlContext calls awaiting a result
  suggestCalls,             \* getInitialSuggestions calls awaiting a result
  currentUrlInput,          \* KnowledgeBaseManager: the text of the URL field
  error,                    \* KnowledgeBaseManager: the inline message, <<>> = null
  uncaught,                 \* an exception left a handler uncaught
  lastOp                    \* the handler or continuation that ran last

vars == <<apiKey, urlGroups, activeUrlGroupId, chatMessages, isLoading,
          isFetchingSuggestions, initialQuerySuggestions, generateCalls,
          suggestCalls, currentUrlInput, error, uncaught, lastOp>>

----------------------------------------------------------------------------
(* Bounds of the model *)

\* A handler that would make the transcript longer than this is not taken.
MaxTranscript == 3

\* A handler that would put more suggestion requests in flight is not taken.
MaxPending == 2

\* Number of distinct new URLs the user may type.
MaxFresh == 6

\* Messages in the transcript of the chat taken on its own
MaxChatTranscript == 5

----------------------------------------------------------------------------
(* Program constants *)

MAX_URLS == 20

USER == "user"
MODEL == "model"
SYSTEM == "system"

\* A URL is its scheme, the separator and the rest: host and path.
Url(rest) == <<"https", "://", rest>>

GEMINI_DOCS_URLS ==
  << Url("ai.google.dev/gemini-api/docs"),
     Url("ai.google.dev/gemini-api/docs/quickstart"),
     Url("ai.google.dev/gemini-api/docs/api-key"),
     Url("ai.google.dev/gemini-api/docs/libraries"),
     Url("ai.google.dev/gemini-api/docs/models"),
     Url("ai.google.dev/gemini-api/docs/pricing"),
     Url("ai.google.dev/gemini-api/docs/rate-limits"),
     Url("ai.google.dev/gemini-api/docs/billing"),
     Url("ai.google.dev/gemini-api/docs/changelog") >>

MODEL_CAPABILITIES_URLS ==
  << Url("ai.google.dev/gemini-api/docs/text-generation"),
     Url("ai.google.dev/gemini-api/docs/image-generation"),
     Url("ai.google.dev/gemini-api/docs/video"),
     Url("ai.google.dev/gemini-api/docs/speech-generation"),
     Url("ai.google.dev/gemini-api/docs/music-generation"),
     Url("ai.google.dev/gemini-api/docs/long-context"),
     Url("ai.google.dev/gemini-api/docs/structured-output"),
     Url("ai.google.dev/gemini-api/docs/thinking"),
     Url("ai.google.dev/gemini-api/docs/function-calling"),
     Url("ai.google.dev/gemini-api/docs/document-processing"),
     Url("ai.google.dev/gemini-api/docs/image-understanding"),
     Url("ai.google.dev/gemini-api/docs/video-understanding"),
     Url("ai.google.dev/gemini-api/docs/audio"),
     Url("ai.google.dev/gemini-api/docs/code-execution"),
     Url("ai.google.dev/gemini-api/docs/grounding") >>

INITIAL_URL_GROUPS ==
  << [id |-> "gemini-overview", name |-> "Gemini Docs Overview",
      urls |-> GEMINI_DOCS_URLS],
     [id |-> "model-capabilities", name |-> "Model Capabilities",
      urls |-> MODEL_CAPABILITIES_URLS] >>

----------------------------------------------------------------------------
(* Strings *)

\* Characters String.prototype.trim() removes (those the model's inputs use).
WhiteSpace == {" ", "\t", "\n"}

RECURSIVE TrimStart(_)
TrimStart(s) ==
  IF s # <<>> /\ Head(s) \in WhiteSpace THEN TrimStart(Tail(s)) ELSE s

RECURSIVE TrimEnd(_)
TrimEnd(s) ==
  IF s # <<>> /\ s[Len(s)] \in WhiteSpace
  THEN TrimEnd(SubSeq(s, 1, Len(s) - 1)) ELSE s

\* String.prototype.trim()
Trim(s) == TrimEnd(TrimStart(s))

\* Array.prototype.includes
Includes(seq, x) == \E i \in DOMAIN seq : seq[i] = x

\* The sequence without its last entry, when x is in it.
WithoutLast(seq, x) ==
  IF Includes(seq, x) THEN SubSeq(seq, 1, Len(seq) - 1) ELSE seq

\* Array.prototype.filter(url => url !== x)
RECURSIVE Without(_, _)
Without(seq, x) ==
  IF seq = <<>> THEN <<>>
  ELSE IF Head(seq) # x THEN <<Head(seq)>> \o Without(Tail(seq), x)
  ELSE Without(Tail(seq), x)

\* The whole sequence, whatever n.
SliceAll(seq, n) == seq

\* Array.prototype.slice(0, n)
Slice0(seq, n) == SubSeq(seq, 1, IF Len(seq) < n THEN Len(seq) ELSE n)

----------------------------------------------------------------------------
(* Messages *)

\* An optional field: <<>> is undefined, <<x>> is the value x.
Undefined == <<>>
Some(x) == <<x>>

\* A ChatMessage.  isLoading is FALSE where the code leaves the field out.
Message(prefix, group, t, text, sender, loading, ctx) ==
  [id |-> [prefix |-> prefix, group |-> group, now |-> t],
   text |-> text, sender |-> sender, timestamp |-> t,
   isLoading |-> loading, urlContext |-> ctx]

Min(S) == CHOOSE n \in S : \A m \in S : n <= m

\* Date.now() and new Date().  The program only ever compares ids for
\* equality, and a handler runs later than every handler before it, so the
\* clock is a value that no message kept in `kept` and no placeholder of a
\* call in flight carries: the least such value.
Now(kept) ==
  LET used == {kept[i].timestamp : i \in DOMAIN kept}
                \cup {generateCalls[i].placeholder.timestamp :
                        i \in DOMAIN generateCalls}
  IN Min((0 .. Cardinality(used)) \ used)

\* urlGroups.find(group => group.id === id); <<>> when there is none
Find(groups, id) ==
  IF \E i \in DOMAIN groups : groups[i].id = id
  THEN Some(groups[Min({i \in DOMAIN groups : groups[i].id = id})])
  ELSE Undefined

\* const currentUrlsForChat = activeGroup ? activeGroup.urls : [];
UrlsForChat(groups, id) ==
  IF Find(groups, id) = Undefined THEN <<>> ELSE Find(groups, id)[1].urls

currentUrlsForChat == UrlsForChat(urlGroups, activeUrlGroupId)

WelcomeMessageText(key, groups, id) ==
  IF ~key
  THEN <<"ERROR: Gemini API Key (process.env.API_KEY) is not configured. Please set this environment variable to use the application.">>
  ELSE <<"Welcome to Documentation Browser! You're currently browsing content from: \"",
         IF Find(groups, id) = Undefined THEN "None" ELSE Find(groups, id)[1].name,
         "\". Just ask me questions, or try one of the suggestions below to get started">>

\* The effect keeping the transcript while a send is in flight.
WelcomeEffectUnlessLoading(key, groups, id) ==
  IF isLoading THEN chatMessages
  ELSE << Message("system-welcome", id, Now(<<>>),
                  WelcomeMessageText(key, groups, id), SYSTEM, FALSE, Undefined) >>

\* The welcome-message effect: the transcript it sets.
WelcomeEffect(key, groups, id) ==
  << Message("system-welcome", id, Now(<<>>),
             WelcomeMessageText(key, groups, id), SYSTEM, FALSE, Undefined) >>

----------------------------------------------------------------------------
(* The text of a suggestion response: a sequence of tokens *)

Tok(k, v) == [k |-> k, v |-> v]
\* The code fence: three backquotes.
FENCE == Tok("fence", <<"~~~">>)
SP == Tok("ws", <<" ">>)
NL == Tok("ws", <<"\n">>)
W(s) == Tok("word", <<s>>)            \* letters, digits, underscores
P(c) == Tok("punct", <<c>>)           \* one of { } [ ] : ,
S(chars) == Tok("str", chars)         \* a JSON string literal, quotes included

IsSpace(tok) == tok.k = "ws"
IsWord(tok) == tok.k = "word"

RECURSIVE DropWhileSpace(_)
DropWhileSpace(toks) ==
  IF toks # <<>> /\ IsSpace(Head(toks)) THEN DropWhileSpace(Tail(toks)) ELSE toks

RECURSIVE DropWhileWord(_)
DropWhileWord(toks) ==
  IF toks # <<>> /\ IsWord(Head(toks)) THEN DropWhileWord(Tail(toks)) ELSE toks

RECURSIVE DropEndSpace(_)
DropEndSpace(toks) ==
  IF toks # <<>> /\ IsSpace(toks[Len(toks)])
  THEN DropEndSpace(SubSeq(toks, 1, Len(toks) - 1)) ELSE toks

\* response.text.trim(), on tokens
TrimText(toks) == DropEndSpace(DropWhileSpace(toks))

\* jsonStr.match(fenceRegex), fenceRegex being
\*   ^ fence (\w*)? \s* \n? (.*?) \n? \s* fence $      with flag s:
\* <<>> when there is no match, else <<group 2>>.  The opening fence, a greedy run of word
\* characters and of white space; then the shortest body that leaves only
\* white space before the closing fence, which ends the string.
FenceMatch(jsonStr) ==
  IF Len(jsonStr) >= 2 /\ Head(jsonStr) = FENCE /\ jsonStr[Len(jsonStr)] = FENCE
  THEN LET inner == SubSeq(jsonStr, 2, Len(jsonStr) - 1)
       IN Some(DropEndSpace(DropWhileSpace(DropWhileWord(inner))))
  ELSE Undefined

\* if (match && match[2]) jsonStr = match[2].trim();
StripFence(jsonStr) ==
  LET match == FenceMatch(jsonStr)
  IN IF match # Undefined /\ match[1] # <<>> THEN TrimText(match[1]) ELSE jsonStr

\* JSON values
JString(chars) == [t |-> "string", s |-> chars, items |-> <<>>, members |-> <<>>]
JNumber == [t |-> "number", s |-> <<>>, items |-> <<>>, members |-> <<>>]
JNull == [t |-> "null", s |-> <<>>, items |-> <<>>, members |-> <<>>]
JBool == [t |-> "boolean", s |-> <<>>, items |-> <<>>, members |-> <<>>]
JArray(items) == [t |-> "array", s |-> <<>>, items |-> items, members |-> <<>>]
JObject(members) == [t |-> "object", s |-> <<>>, items |-> <<>>, members |-> members]

Parsed(val, rest) == [ok |-> TRUE, val |-> val, rest |-> rest]
SyntaxError == [ok |-> FALSE, val |-> JNull, rest |-> <<>>]

IsDigits(tok) == IsWord(tok) /\ tok.v \in {<<"0">>, <<"1">>, <<"2">>}

\* JSON.parse, by recursive descent over the tokens
RECURSIVE ParseValue(_)
RECURSIVE ParseItems(_, _)
RECURSIVE ParseMembers(_, _)

ParseValue(toks0) ==
  LET toks == DropWhileSpace(toks0)
  IN IF toks = <<>> THEN SyntaxError
     ELSE LET h == Head(toks)
              r == DropWhileSpace(Tail(toks))
          IN CASE h.k = "str" -> Parsed(JString(h.v), r)
               [] h = W("null") -> Parsed(JNull, r)
               [] h \in {W("true"), W("false")} -> Parsed(JBool, r)
               [] IsDigits(h) -> Parsed(JNumber, r)
               [] h = P("[") ->
                    IF r # <<>> /\ Head(r) = P("]")
                    THEN Parsed(JArray(<<>>), Tail(r))
                    ELSE ParseItems(r, <<>>)
               [] h = P("{") ->
                    IF r # <<>> /\ Head(r) = P("}")
                    THEN Parsed(JObject(<<>>), Tail(r))
                    ELSE ParseMembers(r, <<>>)
               [] OTHER -> SyntaxError

ParseItems(toks, acc) ==
  LET v == ParseValue(toks)
      r == DropWhileSpace(v.rest)
  IN IF ~v.ok \/ r = <<>> THEN SyntaxError
     ELSE IF Head(r) = P(",") THEN ParseItems(Tail(r), Append(acc, v.val))
     ELSE IF Head(r) = P("]") THEN Parsed(JArray(Append(acc, v.val)), Tail(r))
     ELSE SyntaxError

ParseMembers(toks0, acc) ==
  LET toks == DropWhileSpace(toks0)
  IN IF Len(toks) < 2 \/ toks[1].k # "str" THEN SyntaxError
     ELSE LET colon == DropWhileSpace(Tail(toks))
          IN IF colon = <<>> \/ Head(colon) # P(":") THEN SyntaxError
             ELSE LET v == ParseValue(Tail(colon))
                      r == DropWhileSpace(v.rest)
                      member == [key |-> toks[1].v, val |-> v.val]
                  IN IF ~v.ok \/ r = <<>> THEN SyntaxError
                     ELSE IF Head(r) = P(",")
                     THEN ParseMembers(Tail(r), Append(acc, member))
                     ELSE IF Head(r) = P("}")
                     THEN Parsed(JObject(Append(acc, member)), Tail(r))
                     ELSE SyntaxError

\* JSON.parse(jsonStr): ok = FALSE when it throws
JSONParse(jsonStr) ==
  LET v == ParseValue(jsonStr)
  IN IF v.ok /\ DropWhileSpace(v.rest) = <<>> THEN v ELSE SyntaxError

\* parsed.suggestions: the last member of that name, if parsed is an object
Property(parsed, name) ==
  LET at == {i \in DOMAIN parsed.members : parsed.members[i].key = name}
  IN IF parsed.t = "object" /\ at # {}
     THEN Some(parsed.members[CHOOSE i \in at : \A j \in at : j <= i].val)
     ELSE Undefined

\* JavaScript truthiness of a parsed value
Truthy(parsed) ==
  CASE parsed.t = "null" -> FALSE
    [] parsed.t = "string" -> parsed.s # <<>>
    [] OTHER -> TRUE

\* parsed.suggestions.filter((s: unknown) => typeof s === 'string')
RECURSIVE StringsOf(_)
StringsOf(items) ==
  IF items = <<>> THEN <<>>
  ELSE IF Head(items).t = "string"
       THEN <<Head(items).s>> \o StringsOf(Tail(items))
       ELSE StringsOf(Tail(items))

UNEXPECTED_FORMAT == <<"Received suggestions in an unexpected format.">>
PARSE_ERROR == <<"Error parsing suggestions from AI.">>

\* The same with no message for a value that has no suggestions array.
SuggestionsOfWithoutFormatMessage(text) ==
  LET none == [array |-> <<>>, prefix |-> "", diagnostic |-> Undefined]
  IN IF text = <<>> THEN none
     ELSE LET parsed == JSONParse(StripFence(TrimText(text)))
              suggestions == Property(parsed.val, <<"suggestions">>)
          IN IF ~parsed.ok
             THEN [none EXCEPT !.prefix = "sys-err-suggestion-parse",
                               !.diagnostic = Some(PARSE_ERROR)]
             ELSE IF Truthy(parsed.val) /\ suggestions # Undefined
                     /\ suggestions[1].t = "array"
             THEN [none EXCEPT !.array = StringsOf(suggestions[1].items)]
             ELSE none

\* fetchAndSetInitialSuggestions, from the response to the list it sets: the
\* suggestionsArray, and the diagnostic message (prefix of its id, text) if any.
SuggestionsOf(text) ==
  LET none == [array |-> <<>>, prefix |-> "", diagnostic |-> Undefined]
  IN IF text = <<>> THEN none
     ELSE LET parsed == JSONParse(StripFence(TrimText(text)))
              suggestions == Property(parsed.val, <<"suggestions">>)
          IN IF ~parsed.ok
             THEN [none EXCEPT !.prefix = "sys-err-suggestion-parse",
                               !.diagnostic = Some(PARSE_ERROR)]
             ELSE IF Truthy(parsed.val) /\ suggestions # Undefined
                     /\ suggestions[1].t = "array"
             THEN [none EXCEPT !.array = StringsOf(suggestions[1].items)]
             ELSE [none EXCEPT !.prefix = "sys-err-suggestion-fmt",
                               !.diagnostic = Some(UNEXPECTED_FORMAT)]

----------------------------------------------------------------------------
(* KnowledgeBaseManager: URL validation *)

\* Schemes whose URLs must name a host (the URL standard's special schemes).
SpecialSchemes == {"http", "https", "ftp", "ws", "wss"}

\* Atoms that read as a scheme before a colon: a letter, then letters,
\* digits, "+", "-" and ".".
SchemeLike == SpecialSchemes \cup {"mailto", "docs.example.com", "localhost"}

\* What may stand between a scheme and the rest of a URL.
Separators == {":", "://"}

Slashes == {"/", "//"}

RECURSIVE DropSlashes(_)
DropSlashes(s) ==
  IF s # <<>> /\ Head(s) \in Slashes THEN DropSlashes(Tail(s)) ELSE s

\* isValidUrl: new URL(urlString) does not throw.  The parser strips
\* leading and trailing spaces, needs a scheme and a colon (there is no base
\* URL), and for a special scheme a non-empty host after any slashes.
isValidUrl(urlString) ==
  LET s == Trim(urlString)
  IN /\ Len(s) >= 2
     /\ s[1] \in SchemeLike
     /\ s[2] \in Separators
     /\ s[1] \in SpecialSchemes =>
          LET host == DropSlashes(SubSeq(s, 3, Len(s)))
          IN host # <<>> /\ Head(host) \notin WhiteSpace

URL_EMPTY == <<"URL cannot be empty.">>
URL_INVALID == <<"Invalid URL format. Please include http:// or https://">>
URL_MAXIMUM == <<"You can add a maximum of ${maxUrls} URLs to the current group.">>
URL_DUPLICATE == <<"This URL has already been added to the current group.">>

----------------------------------------------------------------------------
(* geminiService: what a call can settle with *)

QUOTA_ERROR == <<"API quota exceeded. Please check your Gemini API quota.">>
SUGGEST_ERROR == <<"Failed to get initial suggestions from AI: ", "fetch failed">>

Resolved(text, metadata) ==
  [ok |-> TRUE, text |-> text, urlContextMetadata |-> metadata, message |-> <<>>]
Rejected(message) ==
  [ok |-> FALSE, text |-> <<>>, urlContextMetadata |-> Undefined,
   message |-> message]

UrlMetadata(url) ==
  << [retrievedUrl |-> url, urlRetrievalStatus |-> "URL_RETRIEVAL_STATUS_SUCCESS"] >>

\* generateContentWithUrlContext(prompt, urls): { text, urlContextMetadata },
\* or one of the errors it rethrows.
GenerateOutcomes(call) ==
  { Resolved(<<>>, Undefined),
    Resolved(<<"answer">>, IF call.urls = <<>> THEN Undefined
                           ELSE Some(UrlMetadata(call.urls[1]))),
    Rejected(QUOTA_ERROR) }

StringArray5 ==
  <<P("["), S(<<"a">>), P(","), S(<<"b">>), P(","), S(<<"c">>), P(","),
    S(<<"d">>), P(","), S(<<"e">>), P("]")>>
MixedArray == <<P("["), S(<<"a">>), P(","), W("1"), P(","), S(<<"b">>), P("]")>>

\* Texts the model can answer a suggestion request with.
SuggestionTexts ==
  { <<P("{"), S(<<"suggestions">>), P(":")>> \o StringArray5 \o <<P("}")>>,
    <<FENCE, W("json"), NL, P("{"), S(<<"suggestions">>), P(":")>>
       \o StringArray5 \o <<P("}"), NL, FENCE>>,
    <<P("{"), S(<<"suggestions">>), P(":"), SP>> \o MixedArray \o <<P("}")>>,
    <<W("not"), SP, W("json")>>,
    <<P("{"), S(<<"suggestions">>), P(":"), S(<<"a">>), P("}")>>,
    <<P("{"), S(<<"questions">>), P(":"), P("["), P("]"), P("}")>>,
    <<W("null")>>,
    <<SP>>,
    <<>> }

ADD_SOME_URLS ==
  <<P("{"), S(<<"suggestions">>), P(":"), P("["),
    S(<<"Add some URLs to get topic suggestions.">>), P("]"), P("}")>>

\* getInitialSuggestions(urls): { text }, or one of the errors it rethrows.
SuggestOutcomes(call) ==
  IF Len(call.urls) = 0 THEN {Resolved(ADD_SOME_URLS, Undefined)}
  ELSE {Resolved(text, Undefined) : text \in SuggestionTexts}
         \cup {Rejected(SUGGEST_ERROR)}

----------------------------------------------------------------------------
(* App: the effects *)

\* The three state variables a suggestion fetch writes.
Suggesting(fetching, suggestions, calls) ==
  [fetching |-> fetching, suggestions |-> suggestions, calls |-> calls]

\* fetchAndSetInitialSuggestions(currentUrls), up to its await
fetchAndSetInitialSuggestions(currentUrls, st) ==
  IF Len(currentUrls) = 0
  THEN [st EXCEPT !.suggestions = <<>>]
  ELSE Suggesting(TRUE, <<>>, Append(st.calls, [urls |-> currentUrls]))

\* The effect leaving the suggestions as they are where it fetches none.
SuggestionEffectKeepingSuggestions(key, currentUrls, st) ==
  IF Len(currentUrls) > 0 /\ key
  THEN fetchAndSetInitialSuggestions(currentUrls, st)
  ELSE st

\* The effect without its test of process.env.API_KEY.
SuggestionEffectWhateverKey(key, currentUrls, st) ==
  IF Len(currentUrls) > 0
  THEN fetchAndSetInitialSuggestions(currentUrls, st)
  ELSE [st EXCEPT !.suggestions = <<>>]

\* The suggestion effect, run when currentUrlsForChat is a new array.
SuggestionEffect(key, currentUrls, st) ==
  IF Len(currentUrls) > 0 /\ key
  THEN fetchAndSetInitialSuggestions(currentUrls, st)
  ELSE [st EXCEPT !.suggestions = <<>>]

\* The state the suggestion effect leaves, as the next state.
RunSuggestionEffect(currentUrls) ==
  LET st == SuggestionEffect(apiKey, currentUrls,
              Suggesting(isFetchingSuggestions, initialQuerySuggestions,
                         suggestCalls))
  IN /\ Len(st.calls) <= MaxPending
     /\ isFetchingSuggestions' = st.fetching
     /\ initialQuerySuggestions' = st.suggestions
     /\ suggestCalls' = st.calls

\* The handler that ran last with its argument, or the continuation that ran
\* last with what its call settled with.
Op(name, arg) == [op |-> name, arg |-> arg, outcome |-> <<>>]
Settled(name, outcome) == [op |-> name, arg |-> <<>>, outcome |-> <<outcome>>]

GroupIds == {INITIAL_URL_GROUPS[i].id : i \in DOMAIN INITIAL_URL_GROUPS}

Init ==
  /\ apiKey \in BOOLEAN
  /\ urlGroups = INITIAL_URL_GROUPS
  /\ activeUrlGroupId = INITIAL_URL_GROUPS[1].id
  /\ isLoading = FALSE
  /\ generateCalls = <<>>
  /\ chatMessages = WelcomeEffect(apiKey, urlGroups, activeUrlGroupId)
  /\ LET st == SuggestionEffect(apiKey, currentUrlsForChat,
                                Suggesting(FALSE, <<>>, <<>>))
     IN /\ isFetchingSuggestions = st.fetching
        /\ initialQuerySuggestions = st.suggestions
        /\ suggestCalls = st.calls
  /\ currentUrlInput = <<>>
  /\ error = <<>>
  /\ uncaught = FALSE
  /\ lastOp = Op("mount", <<>>)

----------------------------------------------------------------------------
(* KnowledgeBaseManager and the URL group store *)

\* onSetGroupId = setActiveUrlGroupId, from the onChange of the group
\* <select>, which fires when another option is chosen.  The new id fires
\* both effects.
setActiveUrlGroupId(id) ==
  /\ id # activeUrlGroupId
  /\ lastOp' = Op("setActiveUrlGroupId", <<>>)
  /\ activeUrlGroupId' = id
  /\ chatMessages' = WelcomeEffect(apiKey, urlGroups, id)
  /\ RunSuggestionEffect(UrlsForChat(urlGroups, id))
  /\ UNCHANGED <<apiKey, urlGroups, isLoading, generateCalls, currentUrlInput,
                 error, uncaught>>

\* The same with no test of the group's id: the URL goes to every group.
AddedToEvery(group, active, url) ==
  IF Len(group.urls) < MAX_URLS /\ ~Includes(group.urls, url)
  THEN [group EXCEPT !.urls = Append(group.urls, url)]
  ELSE group

\* The group App.handleAddUrl maps `group` to.
AddedTo(group, active, url) ==
  IF group.id = active /\ Len(group.urls) < MAX_URLS /\ ~Includes(group.urls, url)
  THEN [group EXCEPT !.urls = Append(group.urls, url)]
  ELSE group

\* App.handleAddUrl(url): setUrlGroups of a new array, so the welcome effect
\* runs; the suggestion effect runs if the active group got a new urls array.
AppHandleAddUrl(url) ==
  /\ urlGroups' = [i \in DOMAIN urlGroups |->
                     AddedTo(urlGroups[i], activeUrlGroupId, url)]
  /\ chatMessages' = WelcomeEffect(apiKey, urlGroups', activeUrlGroupId)
  /\ IF urlGroups' # urlGroups
     THEN RunSuggestionEffect(UrlsForChat(urlGroups', activeUrlGroupId))
     ELSE UNCHANGED <<isFetchingSuggestions, initialQuerySuggestions, suggestCalls>>

\* The checks without the one for a string that is no URL.
RejectionButOfMalformed(input, urls, maxUrls) ==
  IF Trim(input) = <<>> THEN URL_EMPTY
  ELSE IF Len(urls) >= maxUrls THEN URL_MAXIMUM
  ELSE IF Includes(urls, input) THEN URL_DUPLICATE
  ELSE <<>>

\* The checks without the one for a URL the group already holds.
RejectionButOfDuplicates(input, urls, maxUrls) ==
  IF Trim(input) = <<>> THEN URL_EMPTY
  ELSE IF ~isValidUrl(input) THEN URL_INVALID
  ELSE IF Len(urls) >= maxUrls THEN URL_MAXIMUM
  ELSE <<>>

\* The checks without the one for a full group.
RejectionButOfOverflow(input, urls, maxUrls) ==
  IF Trim(input) = <<>> THEN URL_EMPTY
  ELSE IF ~isValidUrl(input) THEN URL_INVALID
  ELSE IF Includes(urls, input) THEN URL_DUPLICATE
  ELSE <<>>

\* The message KnowledgeBaseManager.handleAddUrl rejects the input with,
\* <<>> when it accepts it.
Rejection(input, urls, maxUrls) ==
  IF Trim(input) = <<>> THEN URL_EMPTY
  ELSE IF ~isValidUrl(input) THEN URL_INVALID
  ELSE IF Len(urls) >= maxUrls THEN URL_MAXIMUM
  ELSE IF Includes(urls, input) THEN URL_DUPLICATE
  ELSE <<>>

\* The user types `input` into the URL field (onChange: setCurrentUrlInput)
\* and submits it (the Add button, or Enter in the field):
\* KnowledgeBaseManager.handleAddUrl.
handleAddUrl(input) ==
  /\ lastOp' = Op("handleAddUrl", input)
  /\ IF Rejection(input, currentUrlsForChat, MAX_URLS) # <<>>
     THEN /\ error' = Rejection(input, currentUrlsForChat, MAX_URLS)
          /\ currentUrlInput' = input
          /\ UNCHANGED <<urlGroups, chatMessages, isFetchingSuggestions,
                         initialQuerySuggestions, suggestCalls>>
     ELSE /\ AppHandleAddUrl(input)
          /\ currentUrlInput' = <<>>
          /\ error' = <<>>
  /\ UNCHANGED <<apiKey, activeUrlGroupId, isLoading, generateCalls, uncaught>>

\* The group App.handleRemoveUrl maps `group` to.
RemovedFrom(group, active, urlToRemove) ==
  IF group.id = active
  THEN [group EXCEPT !.urls = Without(group.urls, urlToRemove)]
  ELSE group

\* App.handleRemoveUrl(urlToRemove): a new urlGroups and a new urls array of
\* the active group, so both effects run.
handleRemoveUrl(urlToRemove) ==
  /\ lastOp' = Op("handleRemoveUrl", urlToRemove)
  /\ urlGroups' = [i \in DOMAIN urlGroups |->
                     RemovedFrom(urlGroups[i], activeUrlGroupId, urlToRemove)]
  /\ chatMessages' = WelcomeEffect(apiKey, urlGroups', activeUrlGroupId)
  /\ RunSuggestionEffect(UrlsForChat(urlGroups', activeUrlGroupId))
  /\ UNCHANGED <<apiKey, activeUrlGroupId, isLoading, generateCalls,
                 currentUrlInput, error, uncaught>>

----------------------------------------------------------------------------
(* App: sending a query *)

API_KEY_ERROR ==
  <<"ERROR: API Key (process.env.API_KEY) is not configured. Please set it up to send messages.">>
THINKING == <<"Thinking...">>
EMPTY_RESPONSE == <<"I received an empty response.">>

\* The guard without its isLoading test.
SendIgnoredUnlessSending(query) ==
  Trim(query) = <<>> \/ isFetchingSuggestions

\* The guard without its isFetchingSuggestions test.
SendIgnoredUnlessFetching(query) ==
  Trim(query) = <<>> \/ isLoading

\* The guard testing the query as typed, not trimmed.
SendIgnoredUntrimmed(query) ==
  query = <<>> \/ isLoading \/ isFetchingSuggestions

\* if (!query.trim() || isLoading || isFetchingSuggestions) return;
SendIgnored(query) ==
  Trim(query) = <<>> \/ isLoading \/ isFetchingSuggestions

\* What handleSendMessage does without an API key: one SYSTEM message.
SendWithoutKey(messages) ==
  Append(messages, Message("error-apikey", "", Now(messages), API_KEY_ERROR,
                           SYSTEM, FALSE, Undefined))

\* The user message with the query trimmed, not as typed.
userMessageTrimmed(query, t) ==
  Message("user", "", t, Trim(query), USER, FALSE, Undefined)

userMessage(query, t) == Message("user", "", t, query, USER, FALSE, Undefined)

modelPlaceholderMessage(t) ==
  Message("model-response", "", t, THINKING, MODEL, TRUE, Undefined)

\* handleSendMessage(query), up to its await, while the transcript stays
\* within `room` messages
handleSendMessageWithin(query, room) ==
  /\ lastOp' = Op("handleSendMessage", query)
  /\ IF SendIgnored(query)
     THEN UNCHANGED <<chatMessages, isLoading, initialQuerySuggestions,
                      generateCalls>>
     ELSE IF ~apiKey
     THEN /\ Len(chatMessages) < room
          /\ chatMessages' = SendWithoutKey(chatMessages)
          /\ UNCHANGED <<isLoading, initialQuerySuggestions, generateCalls>>
     ELSE LET t == Now(chatMessages)
          IN /\ Len(chatMessages) + 2 <= room
             /\ isLoading' = TRUE
             /\ initialQuerySuggestions' = <<>>
             /\ chatMessages' = chatMessages
                                  \o <<userMessage(query, t), modelPlaceholderMessage(t)>>
             /\ generateCalls' = Append(generateCalls,
                                   [prompt |-> query, urls |-> currentUrlsForChat,
                                    placeholder |-> modelPlaceholderMessage(t)])
  /\ UNCHANGED <<apiKey, urlGroups, activeUrlGroupId, isFetchingSuggestions,
                 suggestCalls, currentUrlInput, error, uncaught>>

handleSendMessage(query) == handleSendMessageWithin(query, MaxTranscript)

\* handleSuggestedQueryClick(query), query being the i-th suggestion shown
handleSuggestedQueryClick(i) ==
  handleSendMessage(initialQuerySuggestions[i])

RemoveAt(seq, i) == SubSeq(seq, 1, i - 1) \o SubSeq(seq, i + 1, Len(seq))

\* e.message || fallback
MessageOr(message, fallback) == IF message = <<>> THEN fallback ELSE message

\* The answer without the urlContext of the response.
AnsweredWithoutContext(placeholder, response) ==
  [placeholder EXCEPT
     !.text = IF response.text = <<>> THEN EMPTY_RESPONSE ELSE response.text,
     !.isLoading = FALSE]

\* The message the placeholder becomes when generate resolves.
Answered(placeholder, response) ==
  [placeholder EXCEPT
     !.text = IF response.text = <<>> THEN EMPTY_RESPONSE ELSE response.text,
     !.isLoading = FALSE,
     !.urlContext = response.urlContextMetadata]

\* The failure left with the sender of the placeholder.
FailedAsModel(placeholder, message) ==
  [placeholder EXCEPT
     !.text = <<"Error: ">> \o MessageOr(message, <<"Failed to get response from AI.">>),
     !.isLoading = FALSE]

\* The message the placeholder becomes when generate rejects.
Failed(placeholder, message) ==
  [placeholder EXCEPT
     !.text = <<"Error: ">> \o MessageOr(message, <<"Failed to get response from AI.">>),
     !.sender = SYSTEM,
     !.isLoading = FALSE]

\* The same, but `to` is put at the end where no message has the id.
ReplacedOrAppended(prevMessages, id, to) ==
  IF \E j \in DOMAIN prevMessages : prevMessages[j].id = id
  THEN [j \in DOMAIN prevMessages |->
          IF prevMessages[j].id = id THEN to ELSE prevMessages[j]]
  ELSE Append(prevMessages, to)

\* prevMessages.map(msg => msg.id === modelPlaceholderMessage.id ? to : msg)
Replaced(prevMessages, id, to) ==
  [j \in DOMAIN prevMessages |->
     IF prevMessages[j].id = id THEN to ELSE prevMessages[j]]

\* The same without the finally block: isLoading is left as it is.
GenerateSettledWithoutFinally(i, outcome) ==
  LET call == generateCalls[i]
  IN /\ lastOp' = Settled(IF outcome.ok THEN "generateResolved" ELSE "generateRejected",
                          outcome)
     /\ generateCalls' = RemoveAt(generateCalls, i)
     /\ chatMessages' =
          Replaced(chatMessages, call.placeholder.id,
                   IF outcome.ok THEN Answered(call.placeholder, outcome)
                   ELSE Failed(call.placeholder, outcome.message))
     /\ UNCHANGED <<apiKey, urlGroups, activeUrlGroupId, isLoading,
                    isFetchingSuggestions, initialQuerySuggestions, suggestCalls,
                    currentUrlInput, error, uncaught>>

\* handleSendMessage after its await: try, catch and finally
GenerateSettled(i, outcome) ==
  LET call == generateCalls[i]
  IN /\ lastOp' = Settled(IF outcome.ok THEN "generateResolved" ELSE "generateRejected",
                          outcome)
     /\ generateCalls' = RemoveAt(generateCalls, i)
     /\ chatMessages' =
          Replaced(chatMessages, call.placeholder.id,
                   IF outcome.ok THEN Answered(call.placeholder, outcome)
                   ELSE Failed(call.placeholder, outcome.message))
     /\ isLoading' = FALSE
     /\ UNCHANGED <<apiKey, urlGroups, activeUrlGroupId, isFetchingSuggestions,
                    initialQuerySuggestions, suggestCalls, currentUrlInput,
                    error, uncaught>>

generateResolved(i, outcome) == outcome.ok /\ GenerateSettled(i, outcome)
generateRejected(i, outcome) == ~outcome.ok /\ GenerateSettled(i, outcome)

----------------------------------------------------------------------------
(* App: a suggestion fetch after its await *)

Diagnostic(messages, prefix, text) ==
  Append(messages, Message(prefix, "", Now(messages), text, SYSTEM, FALSE,
                           Undefined))

\* The same applied only when the call was made for the list of URLs that is
\* current when it resolves; a response for another list is dropped.
suggestResolvedIfCurrent(i, outcome) ==
  LET got == SuggestionsOf(outcome.text)
      current == suggestCalls[i].urls = currentUrlsForChat
  IN /\ outcome.ok
     /\ lastOp' = Settled("suggestResolved", outcome)
     /\ suggestCalls' = RemoveAt(suggestCalls, i)
     /\ chatMessages' = IF ~current \/ got.diagnostic = Undefined THEN chatMessages
                        ELSE Diagnostic(chatMessages, got.prefix, got.diagnostic[1])
     /\ initialQuerySuggestions' = IF current THEN Slice0(got.array, 4)
                                   ELSE initialQuerySuggestions
     /\ isFetchingSuggestions' = FALSE
     /\ UNCHANGED <<apiKey, urlGroups, activeUrlGroupId, isLoading,
                    generateCalls, currentUrlInput, error, uncaught>>

\* try: the response is parsed and the suggestions set; finally.
suggestResolved(i, outcome) ==
  LET got == SuggestionsOf(outcome.text)
  IN /\ outcome.ok
     /\ lastOp' = Settled("suggestResolved", outcome)
     /\ suggestCalls' = RemoveAt(suggestCalls, i)
     /\ chatMessages' = IF got.diagnostic = Undefined THEN chatMessages
                        ELSE Diagnostic(chatMessages, got.prefix, got.diagnostic[1])
     /\ initialQuerySuggestions' = Slice0(got.array, 4)
     /\ isFetchingSuggestions' = FALSE
     /\ UNCHANGED <<apiKey, urlGroups, activeUrlGroupId, isLoading,
                    generateCalls, currentUrlInput, error, uncaught>>

\* The catch block with no finally after it: isFetchingSuggestions is left
\* as it is.
suggestRejectedWithoutFinally(i, outcome) ==
  /\ ~outcome.ok
  /\ lastOp' = Settled("suggestRejected", outcome)
  /\ suggestCalls' = RemoveAt(suggestCalls, i)
  /\ chatMessages' =
       Diagnostic(chatMessages, "sys-err-suggestion-fetch",
                  <<"Error fetching suggestions: ">>
                    \o MessageOr(outcome.message, <<"Failed to fetch initial suggestions.">>))
  /\ UNCHANGED <<apiKey, urlGroups, activeUrlGroupId, isLoading,
                 isFetchingSuggestions, initialQuerySuggestions, generateCalls,
                 currentUrlInput, error, uncaught>>

\* catch (e): a diagnostic message, the suggestions left as they are; finally.
suggestRejected(i, outcome) ==
  /\ ~outcome.ok
  /\ lastOp' = Settled("suggestRejected", outcome)
  /\ suggestCalls' = RemoveAt(suggestCalls, i)
  /\ chatMessages' =
       Diagnostic(chatMessages, "sys-err-suggestion-fetch",
                  <<"Error fetching suggestions: ">>
                    \o MessageOr(outcome.message, <<"Failed to fetch initial suggestions.">>))
  /\ isFetchingSuggestions' = FALSE
  /\ UNCHANGED <<apiKey, urlGroups, activeUrlGroupId, isLoading,
                 initialQuerySuggestions, generateCalls, currentUrlInput,
                 error, uncaught>>

----------------------------------------------------------------------------
(* What the user types *)

\* What the user may type into the chat box: "", "   " and " hi ".
Queries == {<<>>, <<" ", " ", " ">>, <<" ", "h", "i", " ">>}

FreshNames == <<"docs.example.com/1", "docs.example.com/2", "docs.example.com/3",
                "docs.example.com/4", "docs.example.com/5", "docs.example.com/6",
                "docs.example.com/7", "docs.example.com/8">>
FreshUrl(k) == <<"https", "://", FreshNames[k]>>

\* A URL no group holds and the user never adds.
ABSENT_URL == <<"https", "://", "docs.example.com/absent">>

\* What the user may type into the URL field: nothing, blanks, a bare host
\* name, the first URL of the active group, and a new URL.  The new URLs
\* differ only by name, so of those the active group lacks the first stands
\* for all.
TypedUrls(fresh) ==
  LET lacking == {k \in 1 .. fresh : ~Includes(currentUrlsForChat, FreshUrl(k))}
  IN {<<>>, <<" ">>, <<"docs.example.com">>}
       \cup (IF currentUrlsForChat = <<>> THEN {} ELSE {currentUrlsForChat[1]})
       \cup (IF lacking = {} THEN {} ELSE {FreshUrl(Min(lacking))})

----------------------------------------------------------------------------
(* The full system *)

Next ==
  \/ \E id \in GroupIds : setActiveUrlGroupId(id)
  \/ \E input \in {FreshUrl(1)} : handleAddUrl(input)
  \/ \E url \in {FreshUrl(1)} : handleRemoveUrl(url)
  \/ \E query \in Queries : handleSendMessage(query)
  \/ \E i \in DOMAIN initialQuerySuggestions \cap {1} : handleSuggestedQueryClick(i)
  \/ \E i \in DOMAIN generateCalls :
       \E outcome \in GenerateOutcomes(generateCalls[i]) :
         \/ generateResolved(i, outcome)
         \/ generateRejected(i, outcome)
  \/ \E i \in DOMAIN suggestCalls :
       \E outcome \in SuggestOutcomes(suggestCalls[i]) :
         \/ suggestResolved(i, outcome)
         \/ suggestRejected(i, outcome)

Spec == Init /\ [][Next]_vars

\* Every call in flight settles: the promise of a generate call, and of a
\* suggest call, is resolved or rejected in the end, and the continuation
\* of its await then runs.
generateSettles ==
  \E i \in DOMAIN generateCalls :
    \E outcome \in GenerateOutcomes(generateCalls[i]) :
      generateResolved(i, outcome) \/ generateRejected(i, outcome)

suggestSettles ==
  \E i \in DOMAIN suggestCalls :
    \E outcome \in SuggestOutcomes(suggestCalls[i]) :
      suggestResolved(i, outcome) \/ suggestRejected(i, outcome)

SpecFair == Spec /\ WF_vars(generateSettles) /\ WF_vars(suggestSettles)

----------------------------------------------------------------------------
(* The chat on its own: group switches, sends and the settling of calls,
   with room in the transcript for two sends one after the other. *)

NextChat ==
  \/ \E id \in GroupIds : setActiveUrlGroupId(id)
  \/ \E query \in Queries : handleSendMessageWithin(query, MaxChatTranscript)
  \/ generateSettles
  \/ suggestSettles

SpecChat == Init /\ [][NextChat]_vars

----------------------------------------------------------------------------
(* The active group emptied: its URLs removed one after the other from the
   top of the list, the suggestion fetches this starts settling in between. *)

NextDrain ==
  \/ currentUrlsForChat # <<>> /\ handleRemoveUrl(currentUrlsForChat[1])
  \/ suggestSettles

SpecDrain == Init /\ [][NextDrain]_vars

----------------------------------------------------------------------------
(* The URL group store: the sidebar used on its own, with all that can be
   typed into it, and the chat box for a transcript to look at.  No API key
   is set, so that no request is ever in flight and a group can be filled to
   MAX_URLS within the bounds. *)

InitUrls == Init /\ ~apiKey

NextUrls ==
  \/ \E id \in GroupIds : setActiveUrlGroupId(id)
  \/ \E input \in TypedUrls(MaxFresh) : handleAddUrl(input)
  \/ \E url \in {FreshUrl(1), ABSENT_URL} : handleRemoveUrl(url)
  \/ \E query \in {<<" ", "h", "i", " ">>} : handleSendMessage(query)

SpecUrls == InitUrls /\ [][NextUrls]_vars

----------------------------------------------------------------------------
(* The URL field: the forms a typed string can have, added to either group
   with no API key set. *)

\* "", " ", a host name, a relative path, a scheme with nothing after it, a
\* scheme and a path with no host (twice), and a whole URL.
TypedForms ==
  { <<>>, <<" ">>, <<"docs.example.com">>, <<"/", "docs">>, <<"https", "://">>,
    <<"mailto", ":">>, <<"mailto", ":", "x">>, FreshUrl(1) }

NextTyping ==
  \/ \E id \in GroupIds : setActiveUrlGroupId(id)
  \/ \E input \in TypedForms : handleAddUrl(input)
  \/ \E url \in {FreshUrl(1)} : handleRemoveUrl(url)

SpecTyping == InitUrls /\ [][NextTyping]_vars

----------------------------------------------------------------------------
(* Claims *)

\* Requests in flight: the generate calls and the suggest calls not settled.
InFlight == Len(generateCalls) + Len(suggestCalls)

\* The step is a call of handleSendMessage, from the chat box or a suggestion.
SendStep == lastOp'.op = "handleSendMessage"

\* C1: in every reachable state at most one request, a generate call or a
\* suggest call, is in flight.
C1_AtMostOneRequestInFlight == InFlight <= 1

\* C2: a send while isLoading or isFetchingSuggestions is true changes
\* neither the transcript, the suggestions nor the two flags, and calls the
\* service for nothing.
C2_SendWhileBusyIsNoOp ==
  [][ SendStep /\ (isLoading \/ isFetchingSuggestions)
        => UNCHANGED <<chatMessages, initialQuerySuggestions, isLoading,
                       isFetchingSuggestions, generateCalls, suggestCalls>> ]_vars

\* A non-blank query sent with a key while only a suggestion fetch is in flight.
C2_Witness ==
  /\ lastOp.op = "handleSendMessage"
  /\ Trim(lastOp.arg) # <<>>
  /\ apiKey
  /\ isFetchingSuggestions
  /\ ~isLoading

\* C3: whenever the active group id changes, the transcript becomes exactly
\* one message, and its sender is SYSTEM.
C3_GroupSwitchResetsTranscript ==
  [][ activeUrlGroupId' # activeUrlGroupId
        => Len(chatMessages') = 1 /\ chatMessages'[1].sender = SYSTEM ]_vars

\* The group switched while a send is in flight.
C3_Witness ==
  /\ lastOp.op = "setActiveUrlGroupId"
  /\ isLoading
  /\ Len(generateCalls) = 1
  /\ Len(chatMessages) = 1

\* The transcript after the step keeps every message of the transcript before
\* it, in place, but the one with the id of `placeholder`, which is `to`.
ReplacedInPlace(placeholder, to) ==
  /\ Len(chatMessages') = Len(chatMessages)
  /\ \A j \in DOMAIN chatMessages :
       chatMessages'[j] = IF chatMessages[j].id = placeholder.id THEN to
                          ELSE chatMessages[j]

\* C4: when a generate call succeeds, the message with the placeholder's id
\* is replaced where it stands by a MODEL message of the same id, not loading,
\* with the returned text (the empty-response notice for an empty text) and
\* the returned metadata as urlContext; every other message is unchanged.
C4_SuccessReplacesPlaceholder ==
  [][ lastOp'.op = "generateResolved"
        => \E i \in DOMAIN generateCalls :
             LET placeholder == generateCalls[i].placeholder
                 response == lastOp'.outcome[1]
             IN /\ generateCalls' = RemoveAt(generateCalls, i)
                /\ ReplacedInPlace(placeholder,
                     [placeholder EXCEPT
                        !.text = IF response.text = <<>> THEN EMPTY_RESPONSE
                                 ELSE response.text,
                        !.sender = MODEL,
                        !.isLoading = FALSE,
                        !.urlContext = response.urlContextMetadata]) ]_vars

\* An answer with metadata has replaced a placeholder that other messages
\* surround.
C4_Witness ==
  /\ lastOp.op = "generateResolved"
  /\ lastOp.outcome[1].urlContextMetadata # Undefined
  /\ \E j \in DOMAIN chatMessages :
       /\ 1 < j /\ j < Len(chatMessages)
       /\ chatMessages[j].sender = MODEL
       /\ chatMessages[j].urlContext = lastOp.outcome[1].urlContextMetadata

\* C5: when a generate call fails, the message with the placeholder's id is
\* replaced where it stands by a SYSTEM message of the same id, not loading,
\* whose text is made from the error; every other message is unchanged and
\* nothing is thrown out of handleSendMessage.
C5_FailureReplacesPlaceholder ==
  [][ lastOp'.op = "generateRejected"
        => \E i \in DOMAIN generateCalls :
             LET placeholder == generateCalls[i].placeholder
                 e == lastOp'.outcome[1]
             IN /\ generateCalls' = RemoveAt(generateCalls, i)
                /\ ReplacedInPlace(placeholder,
                     [placeholder EXCEPT
                        !.text = <<"Error: ">> \o e.message,
                        !.sender = SYSTEM,
                        !.isLoading = FALSE])
                /\ ~uncaught' ]_vars

\* A failure has replaced a placeholder still in the transcript.
C5_Witness ==
  /\ lastOp.op = "generateRejected"
  /\ Len(chatMessages) >= 3
  /\ \E j \in DOMAIN chatMessages :
       /\ chatMessages[j].id.prefix = "model-response"
       /\ chatMessages[j].sender = SYSTEM
       /\ chatMessages[j].text = <<"Error: ">> \o QUOTA_ERROR

\* C6: a send of an empty or whitespace-only query changes neither the
\* transcript, the suggestions nor isLoading, and calls the service for
\* nothing, in any state.
C6_BlankSendIsNoOp ==
  [][ SendStep /\ (\A k \in DOMAIN lastOp'.arg : lastOp'.arg[k] \in WhiteSpace)
        => UNCHANGED <<chatMessages, initialQuerySuggestions, isLoading,
                       generateCalls, suggestCalls>> ]_vars

\* A whitespace-only query sent when nothing else holds the send back.
C6_Witness ==
  /\ lastOp.op = "handleSendMessage"
  /\ lastOp.arg = <<" ", " ", " ">>
  /\ apiKey
  /\ ~isLoading
  /\ ~isFetchingSuggestions

\* No group holds the same URL twice.
NoDuplicates(groups) ==
  \A g \in DOMAIN groups :
    \A i, j \in DOMAIN groups[g].urls :
      groups[g].urls[i] = groups[g].urls[j] => i = j

\* C7: no step leaves a group holding two equal URLs, and adding a URL the
\* active group already holds is rejected with a message and changes no
\* group.
C7_NoDuplicateUrls ==
  [][ /\ NoDuplicates(urlGroups')
      /\ lastOp'.op = "handleAddUrl" /\ Includes(currentUrlsForChat, lastOp'.arg)
           => /\ urlGroups' = urlGroups
              /\ error' \in {URL_DUPLICATE, URL_MAXIMUM} ]_vars

\* After URLs were added and one of them removed, a URL the active group
\* holds is typed and refused as already there.
C7_Witness ==
  /\ lastOp.op = "handleAddUrl"
  /\ Includes(currentUrlsForChat, lastOp.arg)
  /\ error = URL_DUPLICATE
  /\ Includes(currentUrlsForChat, FreshUrl(2))
  /\ ~Includes(currentUrlsForChat, FreshUrl(1))

\* C8: no step leaves a group with more than MAX_URLS URLs, and adding to an
\* active group that holds MAX_URLS is rejected with a message and changes
\* no group.
C8_CapacityIsEnforced ==
  [][ /\ \A g \in DOMAIN urlGroups' : Len(urlGroups'[g].urls) <= MAX_URLS
      /\ lastOp'.op = "handleAddUrl" /\ Len(currentUrlsForChat) >= MAX_URLS
           => /\ urlGroups' = urlGroups
              /\ error' # <<>> ]_vars

\* A well-formed URL the full active group lacks is refused for the maximum.
C8_Witness ==
  /\ lastOp.op = "handleAddUrl"
  /\ isValidUrl(lastOp.arg)
  /\ ~Includes(currentUrlsForChat, lastOp.arg)
  /\ Len(currentUrlsForChat) = MAX_URLS
  /\ error = URL_MAXIMUM

\* C9: without an API key no generate or suggest call is ever in flight; a
\* send of a non-blank query appends one SYSTEM message, the API key error,
\* and nothing else, with isLoading false before and after; a group switch
\* leaves the suggestions empty.
C9_NoKeyNoCall ==
  [][ ~apiKey
        => /\ InFlight = 0
           /\ generateCalls' = <<>> /\ suggestCalls' = <<>>
           /\ SendStep /\ Trim(lastOp'.arg) # <<>>
                => /\ chatMessages' = Append(chatMessages,
                                             chatMessages'[Len(chatMessages')])
                   /\ chatMessages'[Len(chatMessages')].sender = SYSTEM
                   /\ chatMessages'[Len(chatMessages')].text = API_KEY_ERROR
                   /\ ~isLoading /\ ~isLoading'
           /\ activeUrlGroupId' # activeUrlGroupId
                => initialQuerySuggestions' = <<>> ]_vars

\* Without a key: a non-blank query has been answered by the API key error.
C9_Witness ==
  /\ ~apiKey
  /\ lastOp.op = "handleSendMessage"
  /\ Trim(lastOp.arg) # <<>>
  /\ Len(chatMessages) >= 2
  /\ chatMessages[Len(chatMessages)].text = API_KEY_ERROR

\* The text, once trimmed and freed of its fence, parses as JSON to an object
\* whose suggestions member is an array.
HasSuggestionsArray(text) ==
  LET parsed == JSONParse(StripFence(TrimText(text)))
      suggestions == Property(parsed.val, <<"suggestions">>)
  IN parsed.ok /\ suggestions # Undefined /\ suggestions[1].t = "array"

\* The step appends exactly one message, from SYSTEM, to the transcript.
OneDiagnosticAppended ==
  /\ chatMessages' = Append(chatMessages, chatMessages'[Len(chatMessages')])
  /\ chatMessages'[Len(chatMessages')].sender = SYSTEM

\* C10 as stated: a suggestion response whose text does not parse as JSON, or
\* parses to a value without a suggestions array, leaves the suggestions
\* empty and appends exactly one SYSTEM message to the transcript, the
\* earlier messages unchanged and nothing thrown.
C10_BadSuggestionsGiveOneDiagnostic ==
  [][ lastOp'.op = "suggestResolved" /\ ~HasSuggestionsArray(lastOp'.outcome[1].text)
        => /\ initialQuerySuggestions' = <<>>
           /\ OneDiagnosticAppended
           /\ ~uncaught' ]_vars

\* C10 amended: the same of a response whose text is not empty; an empty text
\* leaves the suggestions empty and the transcript as it is.
C10_BadNonEmptySuggestionsGiveOneDiagnostic ==
  [][ lastOp'.op = "suggestResolved" /\ ~HasSuggestionsArray(lastOp'.outcome[1].text)
        => /\ initialQuerySuggestions' = <<>>
           /\ IF lastOp'.outcome[1].text = <<>> THEN chatMessages' = chatMessages
              ELSE OneDiagnosticAppended
           /\ ~uncaught' ]_vars

\* A response that parses to an object with no suggestions member has put the
\* format message after the messages already there.
C10_Witness ==
  /\ lastOp.op = "suggestResolved"
  /\ lastOp.outcome[1].text # <<>>
  /\ JSONParse(lastOp.outcome[1].text).ok
  /\ ~HasSuggestionsArray(lastOp.outcome[1].text)
  /\ Len(chatMessages) >= 2
  /\ chatMessages[Len(chatMessages)].text = UNEXPECTED_FORMAT
  /\ initialQuerySuggestions = <<>>

\* C11: a response whose text, freed of its fence, is a JSON object with a
\* suggestions array sets the suggestions to the strings among the entries
\* of that array, in order, cut to the first 4; and the suggestions never
\* hold more than 4 entries.
C11_SuggestionsAreFirstFourStrings ==
  [][ /\ Len(initialQuerySuggestions') <= 4
      /\ lastOp'.op = "suggestResolved" /\ HasSuggestionsArray(lastOp'.outcome[1].text)
           => \A parsed \in {JSONParse(StripFence(TrimText(lastOp'.outcome[1].text)))} :
                \A strings \in {StringsOf(Property(parsed.val, <<"suggestions">>)[1].items)} :
                  initialQuerySuggestions'
                    = SubSeq(strings, 1, Min({4, Len(strings)})) ]_vars

\* A fenced response with five strings has left the first four as suggestions.
C11_Witness ==
  /\ lastOp.op = "suggestResolved"
  /\ lastOp.outcome[1].text # <<>>
  /\ Head(lastOp.outcome[1].text) = FENCE
  /\ HasSuggestionsArray(lastOp.outcome[1].text)
  /\ initialQuerySuggestions = <<<<"a">>, <<"b">>, <<"c">>, <<"d">>>>

\* C12: removing a URL the active group does not hold changes no group, and
\* neither the transcript nor the suggestions.
C12_RemoveAbsentIsNoOp ==
  [][ lastOp'.op = "handleRemoveUrl" /\ ~Includes(currentUrlsForChat, lastOp'.arg)
        => UNCHANGED <<urlGroups, chatMessages, initialQuerySuggestions>> ]_vars

\* C13: removing a URL the active group holds takes exactly one entry, that
\* URL, out of the group's urls: the length goes down by one and the other
\* entries keep their order.
C13_RemoveTakesOneEntry ==
  [][ lastOp'.op = "handleRemoveUrl" /\ Includes(currentUrlsForChat, lastOp'.arg)
        => \E i \in DOMAIN currentUrlsForChat :
             /\ currentUrlsForChat[i] = lastOp'.arg
             /\ Len(UrlsForChat(urlGroups', activeUrlGroupId))
                  = Len(currentUrlsForChat) - 1
             /\ UrlsForChat(urlGroups', activeUrlGroupId)
                  = SubSeq(currentUrlsForChat, 1, i - 1)
                      \o SubSeq(currentUrlsForChat, i + 1, Len(currentUrlsForChat)) ]_vars

\* The first of several added URLs has been removed; one added after it is
\* still there.
C13_Witness ==
  /\ lastOp = Op("handleRemoveUrl", FreshUrl(1))
  /\ ~Includes(currentUrlsForChat, FreshUrl(1))
  /\ Includes(currentUrlsForChat, FreshUrl(2))
  /\ Includes(currentUrlsForChat, FreshUrl(3))

\* C14: an add that is rejected, for an empty input, a string that is no URL,
\* a full group or a URL the group already holds, changes neither the groups,
\* the transcript, the suggestions nor the flags of the requests in flight,
\* and starts no request; it sets the message of the reason it is rejected
\* for.
C14_RejectedAddHasNoSideEffect ==
  [][ lastOp'.op = "handleAddUrl"
        => LET input == lastOp'.arg
               reason ==
                 IF Trim(input) = <<>> THEN URL_EMPTY
                 ELSE IF ~isValidUrl(input) THEN URL_INVALID
                 ELSE IF Len(currentUrlsForChat) >= MAX_URLS THEN URL_MAXIMUM
                 ELSE IF Includes(currentUrlsForChat, input) THEN URL_DUPLICATE
                 ELSE <<>>
           IN reason # <<>>
                => /\ error' = reason
                   /\ UNCHANGED <<urlGroups, activeUrlGroupId, chatMessages,
                                  initialQuerySuggestions, isLoading,
                                  isFetchingSuggestions, generateCalls,
                                  suggestCalls>> ]_vars

\* A host name with no scheme has been refused as no URL, and the transcript
\* still holds more than the welcome message.
C14_Witness ==
  /\ lastOp = Op("handleAddUrl", <<"docs.example.com">>)
  /\ error = URL_INVALID
  /\ currentUrlInput = <<"docs.example.com">>
  /\ Len(chatMessages) >= 2

\* C15: whenever isLoading is true it is false again later, the generate
\* call settling sooner or later, with an answer or an error.
C15_SendingEnds == isLoading ~> ~isLoading

\* A send has ended with the failure of its generate call.
C15_Witness ==
  /\ lastOp.op = "generateRejected"
  /\ ~isLoading
  /\ generateCalls = <<>>

\* C16: whenever isFetchingSuggestions is true it is false again later, the
\* suggest call settling sooner or later, with a list, with a text that is
\* no list, or with an error.
C16_FetchingEnds == isFetchingSuggestions ~> ~isFetchingSuggestions

\* A suggestion fetch has ended with the failure of its suggest call.
C16_Witness ==
  /\ lastOp.op = "suggestRejected"
  /\ ~isFetchingSuggestions
  /\ suggestCalls = <<>>

\* C17: in every reachable state at most one message of the transcript has
\* isLoading true.
C17_AtMostOneLoadingMessage ==
  \A i, j \in DOMAIN chatMessages :
    chatMessages[i].isLoading /\ chatMessages[j].isLoading => i = j

\* A second query has been sent after the first was answered: its
\* placeholder is the one loading message of five.
C17_Witness ==
  /\ Len(chatMessages) = 5
  /\ chatMessages[3].id.prefix = "model-response"
  /\ ~chatMessages[3].isLoading
  /\ chatMessages[5].isLoading

\* C18: a step that does not change the active group removes no message:
\* every message of the transcript is still there after it, with the same id
\* at the same position.
C18_OnlyGroupSwitchRemovesMessages ==
  [][ activeUrlGroupId' = activeUrlGroupId
        => /\ Len(chatMessages') >= Len(chatMessages)
           /\ \A j \in DOMAIN chatMessages :
                chatMessages'[j].id = chatMessages[j].id ]_vars

\* The step removes a URL and leaves the active group with none, so that the
\* suggestions are refreshed for an empty list of URLs.
RefreshForNoUrls ==
  /\ lastOp'.op = "handleRemoveUrl"
  /\ UrlsForChat(urlGroups', activeUrlGroupId') = <<>>

\* C19 as stated: a refresh of the suggestions for an empty list of URLs starts
\* no suggest call, does not set isFetchingSuggestions, and leaves the
\* informational placeholder as the list of suggestions.
C19_EmptyListGivesPlaceholder ==
  [][ RefreshForNoUrls
        => /\ suggestCalls' = suggestCalls
           /\ isFetchingSuggestions' = isFetchingSuggestions
           /\ initialQuerySuggestions'
                = << <<"Add some URLs to get topic suggestions.">> >> ]_vars

\* C19 amended: a refresh of the suggestions for an empty list of URLs starts
\* no suggest call, does not set isFetchingSuggestions, and leaves the list of
\* suggestions empty.
C19_EmptyListGivesNoSuggestions ==
  [][ RefreshForNoUrls
        => /\ suggestCalls' = suggestCalls
           /\ isFetchingSuggestions' = isFetchingSuggestions
           /\ initialQuerySuggestions' = <<>> ]_vars

\* With an API key, the last URL of the active group has been removed.
C19_Witness ==
  /\ apiKey
  /\ lastOp.op = "handleRemoveUrl"
  /\ currentUrlsForChat = <<>>
  /\ initialQuerySuggestions = <<>>
  /\ suggestCalls = <<>>
  /\ ~isFetchingSuggestions

\* The string is a scheme, "://" and an authority that is not empty.
HasSchemeAndAuthority(s) ==
  /\ Len(s) >= 3
  /\ s[1] \in SchemeLike
  /\ s[2] = "://"
  /\ s[3] \notin WhiteSpace \cup Slashes

\* C20: an add is accepted only for a string that is an absolute URL with a
\* scheme and an authority.
C20_OnlyUrlsWithAuthorityAccepted ==
  [][ lastOp'.op = "handleAddUrl" /\ urlGroups' # urlGroups
        => HasSchemeAndAuthority(lastOp'.arg) ]_vars

\* The step settles a suggest call made for a list of URLs that is not the
\* current one: the active group was switched, or its URLs edited, while the
\* call was in flight.
StaleSuggestSettles ==
  /\ lastOp'.op \in {"suggestResolved", "suggestRejected"}
  /\ \E i \in DOMAIN suggestCalls :
       /\ suggestCalls' = RemoveAt(suggestCalls, i)
       /\ suggestCalls[i].urls # currentUrlsForChat

\* C21: a suggest call that settles after the active group changed is applied
\* all the same: a resolution overwrites the suggestions with the first four
\* strings of the response (with nothing, if it has no suggestions array), and
\* a diagnostic, of a resolution or of a rejection, is appended to the
\* transcript of the moment, whose messages stay as they are.
C21_StaleSuggestionsAreApplied ==
  [][ StaleSuggestSettles
        => \A text \in {IF lastOp'.outcome[1].ok THEN lastOp'.outcome[1].text ELSE <<>>} :
             \A parsed \in {JSONParse(StripFence(TrimText(text)))} :
               \A suggestions \in {Property(parsed.val, <<"suggestions">>)} :
                 IF ~lastOp'.outcome[1].ok THEN OneDiagnosticAppended
                 ELSE IF parsed.ok /\ suggestions # Undefined /\ suggestions[1].t = "array"
                 THEN /\ \A strings \in {StringsOf(suggestions[1].items)} :
                           initialQuerySuggestions'
                             = SubSeq(strings, 1, Min({4, Len(strings)}))
                      /\ chatMessages' = chatMessages \/ OneDiagnosticAppended
                 ELSE /\ initialQuerySuggestions' = <<>>
                      /\ chatMessages' = chatMessages \/ OneDiagnosticAppended ]_vars

\* The group was switched with a fetch in flight, and that fetch has resolved
\* first: its suggestions are shown while the fetch for the group now active
\* is still in flight.
C21_Witness ==
  /\ lastOp.op = "suggestResolved"
  /\ activeUrlGroupId # INITIAL_URL_GROUPS[1].id
  /\ urlGroups = INITIAL_URL_GROUPS
  /\ Len(suggestCalls) = 1
  /\ suggestCalls[1].urls = currentUrlsForChat
  /\ initialQuerySuggestions # <<>>
  /\ Len(chatMessages) = 1

\* The step is a send that is accepted: a non-blank query, nothing in flight
\* that holds it back, and an API key.
AcceptedSend ==
  /\ SendStep
  /\ Trim(lastOp'.arg) # <<>>
  /\ ~isLoading /\ ~isFetchingSuggestions
  /\ apiKey

\* C22: an accepted send leaves, with its generate call in flight and not yet
\* settled, isLoading true, the suggestions empty and the transcript longer
\* by two messages at its end: the USER message with the query as typed, then
\* the MODEL placeholder with isLoading true; the call is made once, with
\* that query.
C22_SendAppendsUserAndPlaceholder ==
  [][ AcceptedSend
        => LET n == Len(chatMessages)
           IN /\ isLoading'
              /\ initialQuerySuggestions' = <<>>
              /\ Len(chatMessages') = n + 2
              /\ SubSeq(chatMessages', 1, n) = chatMessages
              /\ chatMessages'[n + 1].sender = USER
              /\ chatMessages'[n + 1].text = lastOp'.arg
              /\ chatMessages'[n + 1].isLoading = FALSE
              /\ chatMessages'[n + 2].sender = MODEL
              /\ chatMessages'[n + 2].isLoading = TRUE
              /\ Len(generateCalls') = Len(generateCalls) + 1
              /\ generateCalls'[Len(generateCalls')].prompt = lastOp'.arg
              /\ generateCalls'[Len(generateCalls')].placeholder = chatMessages'[n + 2] ]_vars

\* A query with blanks around it has been sent: no suggestion is shown, and
\* the two messages stand after the welcome message, the call in flight.
C22_Witness ==
  /\ lastOp.op = "handleSendMessage"
  /\ lastOp.arg = <<" ", "h", "i", " ">>
  /\ isLoading
  /\ initialQuerySuggestions = <<>>
  /\ Len(generateCalls) = 1
  /\ Len(chatMessages) = 3
  /\ chatMessages[2].sender = USER /\ chatMessages[2].text = lastOp.arg
  /\ chatMessages[3].sender = MODEL /\ chatMessages[3].isLoading

\* C23: in every reachable state with a suggest call in flight,
\* isFetchingSuggestions is true, also when a second fetch was started
\* before the first one settled.
C23_FetchingWhileSuggestCallInFlight ==
  suggestCalls # <<>> => isFetchingSuggestions

\* The step settles a generate call whose placeholder the transcript no
\* longer holds: the transcript was reset while the send was in flight.
GenerateSettlesAfterReset ==
  /\ lastOp'.op \in {"generateResolved", "generateRejected"}
  /\ \E i \in DOMAIN generateCalls :
       /\ generateCalls' = RemoveAt(generateCalls, i)
       /\ \A j \in DOMAIN chatMessages :
            chatMessages[j].id # generateCalls[i].placeholder.id

\* C24: a generate call that settles, with an answer or with a failure, after
\* the transcript was reset leaves the transcript as it is; the step clears
\* isLoading and changes nothing else of the application.
C24_SettlingAfterResetKeepsTranscript ==
  [][ GenerateSettlesAfterReset
        => /\ chatMessages' = chatMessages
           /\ ~isLoading'
           /\ UNCHANGED <<urlGroups, activeUrlGroupId, initialQuerySuggestions,
                          isFetchingSuggestions, suggestCalls, currentUrlInput,
                          error, uncaught>> ]_vars

\* A send was made, the transcript reset, a suggest call started by the reset
\* has failed, and then the generate call has resolved with an answer: the
\* transcript is the welcome message and the diagnostic, with no answer.
C24_Witness ==
  /\ lastOp.op = "generateResolved"
  /\ lastOp.outcome[1].text # <<>>
  /\ ~isLoading
  /\ generateCalls = <<>>
  /\ Len(chatMessages) = 2
  /\ chatMessages[1].id.prefix = "system-welcome"
  /\ chatMessages[2].id.prefix = "sys-err-suggestion-fetch"

\* The active group id is the id of one of the groups.
ActiveGroupExists ==
  \E g \in DOMAIN urlGroups : urlGroups[g].id = activeUrlGroupId

\* C25: an add or a removal of a URL leaves the number and the order of the
\* groups, every group's id and name, the urls of every group but the active
\* one, and the active group id as they are; and the active group id is the
\* id of a group in every reachable state.
C25_UrlEditsTouchOnlyActiveGroup ==
  /\ ActiveGroupExists
  /\ [][ /\ ActiveGroupExists'
         /\ lastOp'.op \in {"handleAddUrl", "handleRemoveUrl"}
              => /\ activeUrlGroupId' = activeUrlGroupId
                 /\ DOMAIN urlGroups' = DOMAIN urlGroups
                 /\ \A g \in DOMAIN urlGroups :
                      /\ urlGroups'[g].id = urlGroups[g].id
                      /\ urlGroups'[g].name = urlGroups[g].name
                      /\ urlGroups[g].id # activeUrlGroupId
                           => urlGroups'[g].urls = urlGroups[g].urls ]_vars

\* Two URLs were added to the first group, and then one to the second: the
\* first group still holds its two.
C25_Witness ==
  /\ lastOp.op = "handleAddUrl"
  /\ lastOp.arg = FreshUrl(1)
  /\ activeUrlGroupId = INITIAL_URL_GROUPS[2].id
  /\ urlGroups[2].urls = Append(INITIAL_URL_GROUPS[2].urls, FreshUrl(1))
  /\ urlGroups[1].urls = INITIAL_URL_GROUPS[1].urls \o <<FreshUrl(1), FreshUrl(2)>>

====
